---- MODULE Spec2Model ----
(***************************************************************************)
(* Threshold sharing over GF(2^8): Shamir secret sharing, Rabin            *)
(* information dispersal, Krawczyk secret sharing and the streaming        *)
(* Shamir variant, modelled from src/src/{secret,ids,secret_iter,share}.rs *)
(***************************************************************************)
EXTENDS Integers, Sequences, FiniteSets, TLC

\* ------------------------------------------------------------------------
\* Bounds of the model
\* ------------------------------------------------------------------------
\* largest n (and k up to MaxN + 1) a sharer is constructed with
MaxN == 3
\* longest secret handed to share()
MaxLen == 3
\* RNG seeds 0..MaxSeed
MaxSeed == 1
\* x-values 0..MaxX handed to generate_decoder
MaxX == 5
\* largest matrix size handed to generate_decoder
MaxSize == 3
\* largest n of the streaming sharer, longest streamed secret
IterMaxN == 3
IterMaxLen == 2

\* byte values secrets are built from
SecretBytes == {0, 201}

\* ------------------------------------------------------------------------
\* GF(2^8), the arithmetic behind gf::GF<u8> (Rijndael polynomial 0x11B,
\* tables over the generator 0x03)
\* ------------------------------------------------------------------------
RECURSIVE Xor(_, _)
Xor(a, b) ==
    IF a = 0 THEN b
    ELSE IF b = 0 THEN a
    ELSE ((a + b) % 2) + 2 * Xor(a \div 2, b \div 2)

\* ExpTable[i + 1] = 3^i for i in 0..254
ExpTable ==
  <<
      1,   3,   5,  15,  17,  51,  85, 255,  26,  46, 114, 150, 161, 248,  19,  53,
     95, 225,  56,  72, 216, 115, 149, 164, 247,   2,   6,  10,  30,  34, 102, 170,
    229,  52,  92, 228,  55,  89, 235,  38, 106, 190, 217, 112, 144, 171, 230,  49,
     83, 245,   4,  12,  20,  60,  68, 204,  79, 209, 104, 184, 211, 110, 178, 205,
     76, 212, 103, 169, 224,  59,  77, 215,  98, 166, 241,   8,  24,  40, 120, 136,
    131, 158, 185, 208, 107, 189, 220, 127, 129, 152, 179, 206,  73, 219, 118, 154,
    181, 196,  87, 249,  16,  48,  80, 240,  11,  29,  39, 105, 187, 214,  97, 163,
    254,  25,  43, 125, 135, 146, 173, 236,  47, 113, 147, 174, 233,  32,  96, 160,
    251,  22,  58,  78, 210, 109, 183, 194,  93, 231,  50,  86, 250,  21,  63,  65,
    195,  94, 226,  61,  71, 201,  64, 192,  91, 237,  44, 116, 156, 191, 218, 117,
    159, 186, 213, 100, 172, 239,  42, 126, 130, 157, 188, 223, 122, 142, 137, 128,
    155, 182, 193,  88, 232,  35, 101, 175, 234,  37, 111, 177, 200,  67, 197,  84,
    252,  31,  33,  99, 165, 244,   7,   9,  27,  45, 119, 153, 176, 203,  70, 202,
     69, 207,  74, 222, 121, 139, 134, 145, 168, 227,  62,  66, 198,  81, 243,  14,
     18,  54,  90, 238,  41, 123, 141, 140, 143, 138, 133, 148, 167, 242,  13,  23,
     57,  75, 221, 124, 132, 151, 162, 253,  28,  36, 108, 180, 199,  82, 246
  >>

\* LogTable[a] = log_3(a) for a in 1..255
LogTable ==
  <<
      0,  25,   1,  50,   2,  26, 198,  75, 199,  27, 104,  51, 238, 223,   3, 100,
      4, 224,  14,  52, 141, 129, 239,  76, 113,   8, 200, 248, 105,  28, 193, 125,
    194,  29, 181, 249, 185,  39, 106,  77, 228, 166, 114, 154, 201,   9, 120, 101,
     47, 138,   5,  33,  15, 225,  36,  18, 240, 130,  69,  53, 147, 218, 142, 150,
    143, 219, 189,  54, 208, 206, 148,  19,  92, 210, 241,  64,  70, 131,  56, 102,
    221, 253,  48, 191,   6, 139,  98, 179,  37, 226, 152,  34, 136, 145,  16, 126,
    110,  72, 195, 163, 182,  30,  66,  58, 107,  40,  84, 250, 133,  61, 186,  43,
    121,  10,  21, 155, 159,  94, 202,  78, 212, 172, 229, 243, 115, 167,  87, 175,
     88, 168,  80, 244, 234, 214, 116,  79, 174, 233, 213, 231, 230, 173, 232,  44,
    215, 117, 122, 235,  22,  11, 245,  89, 203,  95, 176, 156, 169,  81, 160, 127,
     12, 246, 111,  23, 196,  73, 236, 216,  67,  31,  45, 164, 118, 123, 183, 204,
    187,  62,  90, 251,  96, 177, 134,  59,  82, 161, 108, 170,  85,  41, 157, 151,
    178, 135, 144,  97, 190, 220, 252, 188, 149, 207, 205,  55,  63,  91, 209,  83,
     57, 132,  60,  65, 162, 109,  71,  20,  42, 158,  93,  86, 242, 211, 171,  68,
     17, 146, 217,  35,  32,  46, 137, 180, 124, 184,  38, 119, 153, 227, 165, 103,
     74, 237, 222, 197,  49, 254,  24,  13,  99, 140, 128, 192, 247, 112,   7
  >>

Add(a, b) == Xor(a, b)

Mul(a, b) ==
    IF a = 0 \/ b = 0 THEN 0
    ELSE ExpTable[((LogTable[a] + LogTable[b]) % 255) + 1]

\* a^j with a^0 = 1
Pow(a, j) ==
    IF j = 0 THEN 1
    ELSE IF a = 0 THEN 0
    ELSE ExpTable[((LogTable[a] * j) % 255) + 1]

\* multiplicative inverse of a nonzero element
Inv(a) == ExpTable[((255 - LogTable[a]) % 255) + 1]

\* ------------------------------------------------------------------------
\* Option / abort outcomes of an operation
\* ------------------------------------------------------------------------
Some(v) == [tag |-> "Some", val |-> v]
None == [tag |-> "None", val |-> <<>>]
Panic == [tag |-> "panic", val |-> <<>>]

\* inverse of / division by zero is outside the field (spec 4.1): the call
\* either aborts (-1) or yields the value 0
InvZeroOutcomes == {-1, 0}

InvOr(a, inv0) == IF a = 0 THEN inv0 ELSE Inv(a)

\* GF(a) / GF(b)
Div(a, b, inv0) == Mul(a, InvOr(b, inv0))

Min(a, b) == IF a < b THEN a ELSE b

\* .sum::<GF<u8>>()
RECURSIVE GFSumFrom(_, _)
GFSumFrom(s, i) == IF i > Len(s) THEN 0 ELSE Add(s[i], GFSumFrom(s, i + 1))
GFSum(s) == GFSumFrom(s, 1)

\* ------------------------------------------------------------------------
\* The RNG: a deterministic output stream per seed, read through a cursor
\* ------------------------------------------------------------------------
Stream(sd, pos) == (sd * 89 + pos * 57 + (sd + 1) * pos * pos * 3 + 1) % 256

\* rng.fill(&mut buf) for a buffer of cnt bytes, cursor at cur
Fill(sd, cur, cnt) == [j \in 1..cnt |-> Stream(sd, cur + j - 1)]

\* ------------------------------------------------------------------------
\* share.rs
\* ------------------------------------------------------------------------
\* Share::size of one share: body length (Shamir) or stored length
ShareSize(s) == IF "length" \in DOMAIN s THEN s.length ELSE Len(s.body)

\* ShareVec::size: -1 stands for the panic (index 0 of an empty vector, or
\* "size Error")
VecSize(shares) ==
    IF Len(shares) = 0 THEN -1
    ELSE IF \A i \in 1..Len(shares) : ShareSize(shares[i]) = ShareSize(shares[1])
         THEN ShareSize(shares[1])
         ELSE -1

\* ShamirShare::with_size: id 0, zeroed body
ShamirWithSize(size) == [id |-> 0, body |-> [i \in 1..size |-> 0]]

\* ------------------------------------------------------------------------
\* secret.rs: ShamirSecretSharing
\* ------------------------------------------------------------------------
\* sum over j of x^j * rand[j]
PolyEval(rand, gx) == GFSum([j \in 1..Len(rand) |-> Mul(Pow(gx, j - 1), rand[j])])

\* rand after rand[0] = data[i]; rng.fill(&mut rand[1..]) for the i-th byte
\* (1-based), the rng cursor being cur when share() was entered
ShamirRand(kk, d, sd, cur, i) ==
    <<d[i]>> \o Fill(sd, cur + (i - 1) * (kk - 1), kk - 1)

\* the id of out[x - 1] when share() returns: with_size leaves 0, the loop
\* over the data bytes sets x in its first iteration
ShamirId(x, d) == IF Len(d) = 0 THEN ShamirWithSize(0).id ELSE x

ShamirSecretSharing_share(nn, kk, d, sd, cur) ==
    IF kk < 1 \/ kk > nn
    THEN [res |-> None, rng |-> cur]
    ELSE [res |-> Some([x \in 1..nn |->
                    [id |-> ShamirId(x, d),
                     body |-> [i \in 1..Len(d) |->
                                  PolyEval(ShamirRand(kk, d, sd, cur, i), x)]]]),
          rng |-> cur + Len(d) * (kk - 1)]

\* the indexes m in 0..k with m != j, in order
OtherIndexes(kk, j) == SelectSeq([m \in 1..kk |-> m], LAMBDA m : m # j)

\* variant: numerator x_j in place of x_m
LagrangeFactorSwapped(shares, m, j, inv0) ==
    Div(shares[j].id, Add(shares[m].id, shares[j].id), inv0)

\* GF(shares[m].id) / (GF(shares[m].id) - GF(shares[j].id))
LagrangeFactor(shares, m, j, inv0) ==
    Div(shares[m].id, Add(shares[m].id, shares[j].id), inv0)

\* .product::<GF<u8>>() over the indexes others[t..] of the factors for share j
RECURSIVE LagrangeProduct(_, _, _, _, _)
LagrangeProduct(shares, others, t, j, inv0) ==
    IF t > Len(others) THEN 1
    ELSE Mul(LagrangeFactor(shares, others[t], j, inv0),
             LagrangeProduct(shares, others, t + 1, j, inv0))

\* the Lagrange basis value at 0 for share j among the first kk shares
LagrangeAtZero(kk, shares, j, inv0) ==
    LagrangeProduct(shares, OtherIndexes(kk, j), 1, j, inv0)

\* the basis values for shares j..kk; they do not depend on the byte index
RECURSIVE LagrangeBasis(_, _, _, _)
LagrangeBasis(kk, shares, j, inv0) ==
    IF j > kk THEN <<>>
    ELSE <<LagrangeAtZero(kk, shares, j, inv0)>> \o LagrangeBasis(kk, shares, j + 1, inv0)

\* sum over j of body_j[i] * basis[j]
RECURSIVE Interpolate(_, _, _, _)
Interpolate(shares, basis, i, j) ==
    IF j > Len(basis) THEN 0
    ELSE Add(Mul(shares[j].body[i], basis[j]), Interpolate(shares, basis, i, j + 1))

\* some denominator GF(id_m) - GF(id_j) among the first kk shares is zero
ZeroDenominator(kk, shares) ==
    \E j, m \in 1..kk : m # j /\ shares[m].id = shares[j].id

\* variant: no quorum check, interpolating over the shares that are there
ShamirRecontructNoQuorum(kk, shares, inv0) ==
    IF VecSize(shares) = -1 THEN Panic
    ELSE IF VecSize(shares) > 0 /\ ZeroDenominator(Min(kk, Len(shares)), shares) /\ inv0 = -1
         THEN Panic
    ELSE LET basis == LagrangeBasis(Min(kk, Len(shares)), shares, 1, inv0)
         IN  Some([i \in 1..VecSize(shares) |-> Interpolate(shares, basis, i, 1)])

ShamirSecretSharing_recontruct(kk, shares, inv0) ==
    IF Len(shares) < kk THEN None
    ELSE IF VecSize(shares) = -1 THEN Panic
    ELSE IF VecSize(shares) > 0 /\ ZeroDenominator(kk, shares) /\ inv0 = -1 THEN Panic
    ELSE LET basis == LagrangeBasis(kk, shares, 1, inv0)
         IN  Some([i \in 1..VecSize(shares) |-> Interpolate(shares, basis, i, 1)])

\* ------------------------------------------------------------------------
\* ids.rs: RabinInformationDispersal
\* ------------------------------------------------------------------------
\* data.chunks(k): the number of chunks and the c-th chunk (1-based), k > 0
\* variant: whole chunks only
NumChunksFloor(d, kk) == Len(d) \div kk
NumChunks(d, kk) == (Len(d) + kk - 1) \div kk
Chunk(d, kk, c) == SubSeq(d, (c - 1) * kk + 1, Min(c * kk, Len(d)))

\* chunk.into_iter().rev().fold(GF::zero(), |res, b| GF(*b) + gx * res),
\* the fold having reached index idx (from the back) with accumulator res
RECURSIVE FoldRev(_, _, _, _)
FoldRev(chunk, idx, gx, res) ==
    IF idx = 0 THEN res
    ELSE FoldRev(chunk, idx - 1, gx, Add(chunk[idx], Mul(gx, res)))

RabinInformationDispersal_share(nn, kk, d) ==
    IF nn >= 1 /\ kk = 0 THEN Panic   \* chunks(0): chunk size must be non-zero
    ELSE Some([x \in 1..nn |->
             [id |-> x,
              length |-> Len(d),
              body |-> [c \in 1..NumChunks(d, kk) |->
                           FoldRev(Chunk(d, kk, c), Len(Chunk(d, kk, c)), x, 0)]]])

generate_identity(size) ==
    [i \in 1..size |-> [j \in 1..size |-> IF i = j THEN 1 ELSE 0]]

normalize_row(row, element) == [c \in 1..Len(row) |-> Mul(row[c], element)]

\* variant: the normalized row subtracted without the coefficient
mult_and_subtract_plain(row, normalized, coeff) ==
    [c \in 1..Len(row) |-> Add(row[c], normalized[c])]

mult_and_subtract(row, normalized, coeff) ==
    [c \in 1..Len(row) |-> Add(row[c], Mul(normalized[c], coeff))]

\* the inner loop "for j in 0..size" of inverse for pivot i, at row j
RECURSIVE EliminateFrom(_, _, _)
EliminateFrom(st, i, j) ==
    IF j > Len(st.tmp) THEN st
    ELSE IF j = i \/ st.tmp[j][i] = 0 THEN EliminateFrom(st, i, j + 1)
    ELSE EliminateFrom(
            [st EXCEPT !.tmp[j] = mult_and_subtract(st.tmp[j], st.tmp[i], st.tmp[j][i]),
                       !.res[j] = mult_and_subtract(st.res[j], st.res[i], st.tmp[j][i])],
            i, j + 1)

\* the outer loop "for i in 0..size" of inverse, at pivot i
RECURSIVE InverseFrom(_, _, _)
InverseFrom(st, i, inv0) ==
    IF i > Len(st.tmp) THEN st
    ELSE IF st.tmp[i][i] = 0 /\ inv0 = -1
         THEN [st EXCEPT !.zero_pivot = TRUE, !.abort = TRUE]
    ELSE InverseFrom(
            EliminateFrom(
                [st EXCEPT !.tmp[i] = normalize_row(st.tmp[i], InvOr(st.tmp[i][i], inv0)),
                           !.res[i] = normalize_row(st.res[i], InvOr(st.tmp[i][i], inv0)),
                           !.zero_pivot = st.zero_pivot \/ st.tmp[i][i] = 0],
                i, 1),
            i + 1, inv0)

\* returns res, with zero_pivot telling whether GF(0).inverse() was taken and
\* abort whether that call aborted
inverse(matrix, inv0) ==
    InverseFrom([tmp |-> matrix, res |-> generate_identity(Len(matrix)),
                 zero_pivot |-> FALSE, abort |-> FALSE], 1, inv0)

Vandermonde(size, values) ==
    [i \in 1..size |-> [j \in 1..size |-> Pow(values[i], j - 1)]]

generate_decoder(size, values, inv0) == inverse(Vandermonde(size, values), inv0)

ShareIds(shares) == [i \in 1..Len(shares) |-> shares[i].id]

\* shares[x].body[i] is read past the end of a body
BodyOutOfRange(kk, shares) ==
    \E index \in 1..VecSize(shares), x \in 1..kk :
        /\ (index - 1) \div kk < Len(shares[1].body)
        /\ (index - 1) \div kk >= Len(shares[x].body)

\* secret[index] (1-based) when the loops are over: written for chunk
\* i = index / k and row j = index % k if the first body has a chunk i, else
\* left at the initial 0
RabinByte(kk, shares, decoder, index) ==
    IF kk = 0 \/ (index - 1) \div kk >= Len(shares[1].body) THEN 0
    ELSE GFSum([x \in 1..kk |->
            Mul(decoder[((index - 1) % kk) + 1][x],
                shares[x].body[((index - 1) \div kk) + 1])])

RabinInformationDispersal_recontruct(kk, shares, inv0) ==
    IF Len(shares) < kk THEN None
    ELSE LET decoder == generate_decoder(kk, ShareIds(shares), inv0)
         IN  IF decoder.abort THEN Panic
             ELSE IF VecSize(shares) = -1 THEN Panic
             ELSE IF BodyOutOfRange(kk, shares) THEN Panic
             ELSE Some([index \in 1..VecSize(shares) |->
                          RabinByte(kk, shares, decoder.res, index)])

\* ------------------------------------------------------------------------
\* secret.rs: KrawczykSecretSharing
\* ------------------------------------------------------------------------
\* bytes of key and nonce drawn per share() call: [0u8; 44]
KeyNonceLen == 44

\* key_nonce[0..32] is the cipher key, key_nonce[32..44] the nonce
KeyLen == 32
NonceLen == 12

\* the stream cipher C: the i-th keystream byte (1-based) under key_nonce,
\* a function of the position, the key and the nonce
KeyStream(key_nonce, i) ==
    Add(Mul(key_nonce[((i - 1) % KeyLen) + 1], (i % 255) + 1),
        key_nonce[KeyLen + 1 + ((i - 1) % NonceLen)])

\* cipher.encrypt(&mut data) / cypher.decrypt(&mut data): XOR with the keystream
ApplyKeystream(key_nonce, d) ==
    [i \in 1..Len(d) |-> Add(d[i], KeyStream(key_nonce, i))]

\* the zip of the Rabin shares with the Shamir shares of key_nonce
ZipShares(length, rabin, shamir) ==
    [i \in 1..Min(Len(rabin), Len(shamir)) |->
        [id |-> rabin[i].id,
         length |-> length,
         key |-> SubSeq(shamir[i].body, 1, KeyNonceLen),
         body |-> rabin[i].body]]

\* share() of a sharer whose own rng is at cursor cur and whose shamir.rng is
\* at cursor scur; key_nonce and encrypted are the locals of the call
KrawczykSecretSharing_share(nn, kk, d, sd, cur, scur) ==
    LET key_nonce == Fill(sd, cur, KeyNonceLen)
        encrypted == ApplyKeystream(key_nonce, d)
        rabin == RabinInformationDispersal_share(nn, kk, encrypted)
        shamir == ShamirSecretSharing_share(nn, kk, key_nonce, sd, scur)
    IN  IF rabin.tag # "Some"
        THEN [res |-> rabin, rng |-> cur + KeyNonceLen, shamir_rng |-> scur,
              key_nonce |-> key_nonce, encrypted |-> encrypted]
        ELSE IF shamir.res.tag # "Some"
        THEN [res |-> shamir.res, rng |-> cur + KeyNonceLen, shamir_rng |-> shamir.rng,
              key_nonce |-> key_nonce, encrypted |-> encrypted]
        ELSE [res |-> Some(ZipShares(Len(d), rabin.val, shamir.res.val)),
              rng |-> cur + KeyNonceLen, shamir_rng |-> shamir.rng,
              key_nonce |-> key_nonce, encrypted |-> encrypted]

ShamirViews(shares) ==
    [i \in 1..Len(shares) |-> [id |-> shares[i].id, body |-> shares[i].key]]

RabinViews(shares) ==
    [i \in 1..Len(shares) |->
        [id |-> shares[i].id, length |-> shares[i].length, body |-> shares[i].body]]

\* variant: the decoded bytes are returned without the decrypt step
KrawczykRecontructNoDecrypt(kk, shares, inv0) ==
    LET key_nonce == ShamirSecretSharing_recontruct(kk, ShamirViews(shares), inv0)
        encrypted == RabinInformationDispersal_recontruct(kk, RabinViews(shares), inv0)
    IN  IF key_nonce.tag # "Some" THEN key_nonce
        ELSE encrypted

KrawczykSecretSharing_recontruct(kk, shares, inv0) ==
    LET key_nonce == ShamirSecretSharing_recontruct(kk, ShamirViews(shares), inv0)
        encrypted == RabinInformationDispersal_recontruct(kk, RabinViews(shares), inv0)
    IN  IF key_nonce.tag # "Some" THEN key_nonce
        ELSE IF encrypted.tag # "Some" THEN encrypted
        ELSE Some(ApplyKeystream(key_nonce.val, encrypted.val))

\* ------------------------------------------------------------------------
\* The sharers of the Sharing trait: construction, share(), recontruct()
\* ------------------------------------------------------------------------
VARIABLES
    pc,          \* "ready" after new(), "shared" after share(), "done" after recontruct()
    alg,         \* which sharer was constructed
    n, k,        \* its parameters
    seed,        \* the RNG handed to new()
    rng,         \* cursor of self.rng
    shamir_rng,  \* cursor of self.shamir.rng (Krawczyk)
    data,        \* the secret handed to share()
    shares,      \* what share() returned
    key_nonce,   \* Krawczyk: the key/nonce block of the share() call
    encrypted,   \* Krawczyk: the ciphertext of the share() call
    key_draws,   \* stream positions read into key_nonce
    coef_draws,  \* stream positions read into polynomial coefficients
    input,       \* the shares handed to recontruct()
    tamper,      \* how input was derived from shares
    rec,         \* what recontruct() returned
    iters,       \* streaming: the ShareIter values share() returned
    collected,   \* streaming: the bytes each ShareIter has yielded
    size,        \* generate_decoder: its size argument
    values,      \* generate_decoder: its values argument
    decoder      \* generate_decoder: what inverse() produced

sharing_vars == <<rng, shamir_rng, shares, key_nonce, encrypted, key_draws, coef_draws>>
iter_vars == <<iters, collected>>
matrix_vars == <<size, values, decoder>>

vars == <<pc, alg, n, k, seed, data, input, tamper, rec,
          sharing_vars, iter_vars, matrix_vars>>

\* nothing shared yet, no iterator handed out, no matrix inverted
NoSharing ==
    /\ rng = 0
    /\ shamir_rng = 0
    /\ shares = None
    /\ key_nonce = <<>>
    /\ encrypted = <<>>
    /\ key_draws = {}
    /\ coef_draws = {}

NoIter == iters = <<>> /\ collected = <<>>

NoMatrix ==
    /\ size = 0
    /\ values = <<>>
    /\ decoder = [tmp |-> <<>>, res |-> <<>>, zero_pivot |-> FALSE, abort |-> FALSE]

Algorithms == {"Shamir", "Rabin", "Krawczyk"}

RECURSIVE SeqsUpTo(_, _)
SeqsUpTo(S, len) ==
    IF len = 0 THEN {<<>>}
    ELSE SeqsUpTo(S, len - 1) \cup
         {Append(s, b) : s \in {t \in SeqsUpTo(S, len - 1) : Len(t) = len - 1}, b \in S}

Secrets == SeqsUpTo(SecretBytes, MaxLen)

\* new(n, k, rng), new(n, k) for Rabin, which has no RNG; Krawczyk keeps
\* rng.clone() and hands rng to its Shamir sharer, so both cursors start at
\* the same position of the same stream
Init ==
    /\ pc = "ready"
    /\ alg \in Algorithms
    /\ n \in 0..MaxN
    /\ k \in 0..(MaxN + 1)
    /\ seed \in (IF alg = "Rabin" THEN {0} ELSE 0..MaxSeed)
    /\ data = <<>>
    /\ input = <<>>
    /\ tamper = "none"
    /\ rec = None
    /\ NoSharing
    /\ NoIter
    /\ NoMatrix

\* the stream positions read while a cursor moves from from to to
Positions(from, to) == from..(to - 1)

ShareShamir(d) ==
    /\ alg = "Shamir"
    /\ LET r == ShamirSecretSharing_share(n, k, d, seed, rng)
       IN  /\ shares' = r.res
           /\ rng' = r.rng
           /\ coef_draws' = Positions(rng, r.rng)
    /\ UNCHANGED <<shamir_rng, key_nonce, encrypted, key_draws>>

ShareRabin(d) ==
    /\ alg = "Rabin"
    /\ shares' = RabinInformationDispersal_share(n, k, d)
    /\ UNCHANGED <<rng, shamir_rng, key_nonce, encrypted, key_draws, coef_draws>>

ShareKrawczyk(d) ==
    /\ alg = "Krawczyk"
    /\ LET r == KrawczykSecretSharing_share(n, k, d, seed, rng, shamir_rng)
       IN  /\ shares' = r.res
           /\ rng' = r.rng
           /\ shamir_rng' = r.shamir_rng
           /\ key_nonce' = r.key_nonce
           /\ encrypted' = r.encrypted
           /\ key_draws' = Positions(rng, r.rng)
           /\ coef_draws' = Positions(shamir_rng, r.shamir_rng)

\* sharer.share(data)
Share ==
    /\ pc = "ready"
    /\ \E d \in Secrets :
        /\ data' = d
        /\ \/ ShareShamir(d)
           \/ ShareRabin(d)
           \/ ShareKrawczyk(d)
    /\ pc' = "shared"
    /\ UNCHANGED <<alg, n, k, seed, input, tamper, rec, iter_vars, matrix_vars>>

\* the lists without repetition of indexes into a vector of cnt shares
Picks(cnt) ==
    {p \in SeqsUpTo(1..cnt, cnt) : \A i, j \in 1..Len(p) : i # j => p[i] # p[j]}

\* a share whose size differs from the one share() gave it
Resized(s) ==
    IF "length" \in DOMAIN s THEN [s EXCEPT !.length = s.length + 1]
    ELSE [s EXCEPT !.body = Append(s.body, 0)]

\* what a caller hands to recontruct: some of the shares in some order, as
\* returned ("none"), or with the last one carrying the id of the first
\* ("dupid") or another size ("size")
Tampers == {"none", "dupid", "size"}

Chosen(list, p, t) ==
    LET sel == [i \in 1..Len(p) |-> list[p[i]]]
    IN  IF t = "none" \/ Len(p) < 2 THEN sel
        ELSE IF t = "dupid" THEN [sel EXCEPT ![Len(p)].id = sel[1].id]
        ELSE [sel EXCEPT ![Len(p)] = Resized(sel[Len(p)])]

Recontruct_of(a, kk, list, inv0) ==
    IF a = "Shamir" THEN ShamirSecretSharing_recontruct(kk, list, inv0)
    ELSE IF a = "Rabin" THEN RabinInformationDispersal_recontruct(kk, list, inv0)
    ELSE KrawczykSecretSharing_recontruct(kk, list, inv0)

\* sharer.recontruct(input)
Recontruct ==
    /\ pc = "shared"
    /\ \E p \in Picks(Len(shares.val)), t \in Tampers, inv0 \in InvZeroOutcomes :
        /\ (t # "none" => Len(p) >= 2)
        /\ input' = Chosen(shares.val, p, t)
        /\ tamper' = t
        /\ rec' = Recontruct_of(alg, k, Chosen(shares.val, p, t), inv0)
    /\ pc' = "done"
    /\ UNCHANGED <<alg, n, k, seed, data, sharing_vars, iter_vars, matrix_vars>>

Next == Share \/ Recontruct

Spec == Init /\ [][Next]_vars

\* ------------------------------------------------------------------------
\* Properties of share() and recontruct()
\* ------------------------------------------------------------------------
ValidParams == 1 <= k /\ k <= n

\* input is some of the shares share() returned, each at most once, in any
\* order, unchanged
Untampered == shares.tag = "Some" /\ tamper = "none"

\* the permutations of 1..cnt
Orderings(cnt) == {p \in Picks(cnt) : Len(p) = cnt}

RoundTripCase(a) ==
    /\ pc = "done"
    /\ alg = a
    /\ ValidParams
    /\ Untampered
    /\ Len(input) = k

\* C1: Rabin round trip: with 1 <= k <= n, recontruct on any k of the n
\* shares of a secret, in any order, returns exactly the secret, whatever its
\* length (0 and lengths that are not a multiple of k included)
C1_RabinRoundTrip ==
    RoundTripCase("Rabin") => rec = Some(data)

\* a secret of 3 bytes ending in a zero byte, k = 2: the last chunk is
\* partial, and the shares are handed over in descending id order
C1_Witness ==
    /\ RoundTripCase("Rabin")
    /\ k = 2 /\ n = 3
    /\ data = <<201, 201, 0>>
    /\ input[1].id > input[2].id
    /\ Len(input[1].body) = 2
    /\ rec = Some(data)

\* C2: Shamir round trip: with 1 <= k <= n, recontruct on any k of the n
\* shares returns exactly the secret, and the same for every permutation of
\* those k shares
C2_ShamirRoundTrip ==
    RoundTripCase("Shamir") =>
        /\ rec = Some(data)
        /\ \A q \in Orderings(k) :
              ShamirSecretSharing_recontruct(k, [i \in 1..k |-> input[q[i]]], -1) = rec

C2_Witness ==
    /\ RoundTripCase("Shamir")
    /\ k = 3 /\ n = 3
    /\ data = <<201, 0, 201>>
    /\ input[1].id = 2 /\ input[2].id = 3 /\ input[3].id = 1
    /\ input[1].body # data
    /\ rec = Some(data)

\* C3: Krawczyk round trip: with 1 <= k <= n, recontruct on any k of the n
\* shares returns exactly the secret; Shamir on the k key fields recovers the
\* key/nonce block used to encrypt and Rabin on the k bodies the ciphertext
C3_KrawczykRoundTrip ==
    RoundTripCase("Krawczyk") =>
        /\ rec = Some(data)
        /\ ShamirSecretSharing_recontruct(k, ShamirViews(input), -1) = Some(key_nonce)
        /\ RabinInformationDispersal_recontruct(k, RabinViews(input), -1) = Some(encrypted)

C3_Witness ==
    /\ RoundTripCase("Krawczyk")
    /\ k = 2 /\ n = 3
    /\ Len(data) = 3
    /\ encrypted # data
    /\ Len(key_nonce) = KeyNonceLen
    /\ input[1].id = 3 /\ input[2].id = 1
    /\ input[1].key # key_nonce
    /\ rec = Some(data)

\* C4: recontruct on fewer than k shares (the empty list included) returns
\* None, for Shamir, Rabin and Krawczyk
C4_InsufficientQuorum ==
    (pc = "done" /\ Len(input) < k) => rec = None

C4_Witness ==
    /\ pc = "done"
    /\ alg = "Krawczyk"
    /\ k = 3 /\ n = 3
    /\ Len(input) = 2
    /\ rec = None

\* C5: for every algorithm, valid (n, k) and secret, the vector share()
\* returns has n entries and the entry at position i (0-based) has id i + 1
C5_ShareIds ==
    (pc # "ready" /\ ValidParams) =>
        /\ shares.tag = "Some"
        /\ Len(shares.val) = n
        /\ \A i \in 1..Len(shares.val) : shares.val[i].id = i

\* C6: a sharer constructed with k = 0 or k > n returns None from share()
C6_ParameterValidation ==
    (pc # "ready" /\ (k = 0 \/ k > n)) => shares = None

\* two of the first k shares carry the same id, or the sizes differ
Malformed(list, kk) ==
    \/ \E i, j \in 1..Min(kk, Len(list)) : i # j /\ list[i].id = list[j].id
    \/ \E i, j \in 1..Len(list) : ShareSize(list[i]) # ShareSize(list[j])

\* C7: recontruct on at least k shares that are not well-formed returns None
C7_MalformedInput ==
    (pc = "done" /\ Len(input) >= k /\ Malformed(input, k)) => rec = None

\* C10: every stream position read into a polynomial coefficient is read
\* into nothing else: not into the key/nonce block of the same call
C10_FreshCoefficients ==
    key_draws \cap coef_draws = {}

\* ------------------------------------------------------------------------
\* ids.rs: generate_decoder as a function of its arguments
\* ------------------------------------------------------------------------
XValues == (0..MaxX) \cup {254, 255}

InitMatrix ==
    /\ pc = "ready"
    /\ alg = "Rabin"
    /\ n = 0
    /\ k = 0
    /\ seed = 0
    /\ data = <<>>
    /\ input = <<>>
    /\ tamper = "none"
    /\ rec = None
    /\ NoSharing
    /\ NoIter
    /\ NoMatrix

\* generate_decoder(size, values)
GenerateDecoder ==
    /\ pc = "ready"
    /\ \E sz \in 0..MaxSize, inv0 \in InvZeroOutcomes :
        \E vals \in {v \in SeqsUpTo(XValues, sz) : Len(v) = sz} :
            /\ size' = sz
            /\ values' = vals
            /\ decoder' = generate_decoder(sz, vals, inv0)
    /\ pc' = "done"
    /\ UNCHANGED <<alg, n, k, seed, data, input, tamper, rec, sharing_vars, iter_vars>>

NextMatrix == GenerateDecoder

SpecMatrix == InitMatrix /\ [][NextMatrix]_vars

\* the product of two square matrices over GF(2^8)
MatMul(A, B) ==
    [i \in 1..Len(A) |-> [j \in 1..Len(A) |->
        GFSum([m \in 1..Len(A) |-> Mul(A[i][m], B[m][j])])]]

DistinctNonzero(vals) ==
    /\ \A i \in 1..Len(vals) : vals[i] # 0
    /\ \A i, j \in 1..Len(vals) : i # j => vals[i] # vals[j]

\* C9: for k >= 1 distinct nonzero x-values, Gauss-Jordan in pivot order
\* without row swaps never inverts a zero pivot, and the matrix D returned
\* satisfies D * V = I for V[i][j] = x_i^j
C9_MatrixInverse ==
    (pc = "done" /\ size >= 1 /\ DistinctNonzero(values)) =>
        /\ ~decoder.zero_pivot
        /\ MatMul(decoder.res, Vandermonde(size, values)) = generate_identity(size)

C9_Witness ==
    /\ pc = "done"
    /\ size = 3
    /\ values = <<255, 2, 5>>
    /\ ~decoder.zero_pivot
    /\ decoder.res # generate_identity(3)
    /\ MatMul(decoder.res, Vandermonde(size, values)) = generate_identity(size)

\* ------------------------------------------------------------------------
\* secret_iter.rs: ShamirIterSecretSharing and its ShareIter iterators
\* ------------------------------------------------------------------------
\* variant: k items taken per source byte
SharedIterTakeK(sd, cur, kk) == Fill(sd, cur, kk)

\* self.rng.by_ref().take(k - 1) on a SharedIter clone whose cursor is at cur:
\* every clone reads the one output sequence of the cloned RNG from its own
\* cursor
SharedIterTake(sd, cur, kk) == Fill(sd, cur, kk - 1)

\* the byte ShareIter::next yields for the source byte v
ShareIterByte(it, sd, v) ==
    PolyEval(<<v>> \o SharedIterTake(sd, it.rng, it.k), it.x)

InitIter ==
    /\ pc = "ready"
    /\ alg = "ShamirIter"
    /\ n \in 0..IterMaxN
    /\ k \in 0..(IterMaxN + 1)
    /\ seed \in 0..MaxSeed
    /\ data = <<>>
    /\ input = <<>>
    /\ tamper = "none"
    /\ rec = None
    /\ NoSharing
    /\ NoIter
    /\ NoMatrix

\* sharer.share(data.iter()): n iterators, each with a clone of the source
\* and a clone of the shared RNG iterator
ShamirIterSecretSharing_share ==
    /\ pc = "ready"
    /\ \E d \in SeqsUpTo(SecretBytes, IterMaxLen) :
        /\ data' = d
        /\ iters' = [x \in 1..n |-> [k |-> k, x |-> x, source |-> 0, rng |-> 0, done |-> FALSE]]
        /\ collected' = [x \in 1..n |-> <<>>]
    /\ pc' = "sharing"
    /\ UNCHANGED <<alg, n, k, seed, input, tamper, rec, sharing_vars, matrix_vars>>

\* one call of next() on the idx-th iterator by whoever collects it
ShareIter_next(idx) ==
    /\ pc = "sharing"
    /\ ~iters[idx].done
    /\ IF iters[idx].source >= Len(data)
       THEN \* source.next() is None
            /\ iters' = [iters EXCEPT ![idx].done = TRUE]
            /\ UNCHANGED <<collected, pc>>
       ELSE IF iters[idx].k = 0
       THEN \* k as usize - 1 underflows: the call does not return
            /\ pc' = "panic"
            /\ UNCHANGED <<iters, collected>>
       ELSE /\ collected' = [collected EXCEPT ![idx] =
                   Append(@, ShareIterByte(iters[idx], seed, data[iters[idx].source + 1]))]
            /\ iters' = [iters EXCEPT
                   ![idx].source = @ + 1,
                   ![idx].rng = @ + Len(SharedIterTake(seed, iters[idx].rng, iters[idx].k))]
            /\ UNCHANGED pc
    /\ UNCHANGED <<alg, n, k, seed, data, input, tamper, rec, sharing_vars, matrix_vars>>

\* the collected iterators as ShamirShare values, handed to
\* ShamirSecretSharing::recontruct
CollectedShares(p) ==
    [i \in 1..Len(p) |-> [id |-> iters[p[i]].x, body |-> collected[p[i]]]]

IterRecontruct ==
    /\ pc = "sharing"
    /\ \A x \in 1..Len(iters) : iters[x].done
    /\ \E p \in Picks(Len(iters)), inv0 \in InvZeroOutcomes :
        /\ input' = CollectedShares(p)
        /\ rec' = ShamirSecretSharing_recontruct(k, CollectedShares(p), inv0)
    /\ pc' = "done"
    /\ UNCHANGED <<alg, n, k, seed, data, tamper, sharing_vars, iter_vars, matrix_vars>>

NextIter ==
    \/ ShamirIterSecretSharing_share
    \/ \E idx \in 1..Len(iters) : ShareIter_next(idx)
    \/ IterRecontruct

SpecIter == InitIter /\ [][NextIter]_vars

\* what ShamirSecretSharing::share returns for the same n, k, data and RNG
NonStreaming == ShamirSecretSharing_share(n, k, data, seed, 0).res

\* C8: under every interleaving of next() calls, what iterator x has yielded
\* is a prefix of the body the non-streaming share() gives share x from the
\* same RNG (one polynomial per position, the same for all iterators), and
\* any k of the collected shares reconstruct the secret
C8_StreamingAlignment ==
    (pc \in {"sharing", "done"} /\ ValidParams) =>
        /\ \A x \in 1..n :
              collected[x] = SubSeq(NonStreaming.val[x].body, 1, iters[x].source)
        /\ (pc = "done" /\ Len(input) = k) => rec = Some(data)

\* iterator 3 drained before iterator 1 has yielded anything
C8_WitnessInterleaved ==
    /\ pc = "sharing"
    /\ n = 3 /\ k = 2
    /\ Len(data) = 2
    /\ iters[3].done /\ Len(collected[3]) = 2
    /\ iters[2].source = 1
    /\ iters[1].source = 0
    /\ collected[3] # data

====
